---- MODULE Spec2Model ----
(***************************************************************************)
(* Bathbot: the match-cost command's rating algorithm, process_match       *)
(* (src/src/commands/osu/match_costs.rs), as a state machine.              *)
(*                                                                         *)
(* One behaviour is one invocation of process_match.  Init fixes the       *)
(* arguments (games, finished, users) and the build profile; the actions   *)
(* are the stages of the function in program order: the loop over the      *)
(* games, the tiebreaker bonus, the mod bonus, the loop over the players   *)
(* and the final sort.  Where the code iterates a hash map, or uses an     *)
(* unstable sort, the model takes every order the library may produce.     *)
(***************************************************************************)
EXTENDS Integers, Sequences, FiniteSets, TLC

(***************************************************************************)
(* f32 values.  A finite value x is the integer x * Scale, truncated;      *)
(* the two special values the code can produce get their own constants.    *)
(***************************************************************************)
Scale == 10^4
Inf == 2 * 10^9
NaN == 0 - 1

IsNumber(x) == x # NaN
IsFiniteNumber(x) == x # NaN /\ x # Inf

\* a + b
FAdd(a, b) ==
    IF a = NaN \/ b = NaN THEN NaN
    ELSE IF a = Inf \/ b = Inf THEN Inf
    ELSE a + b

\* a - b, for a finite b
FSub(a, b) ==
    IF a = NaN \/ b = NaN THEN NaN
    ELSE IF a = Inf THEN Inf
    ELSE a - b

\* a * b, for a finite non-negative b
FMul(a, b) ==
    IF a = NaN \/ b = NaN THEN NaN
    ELSE IF a = Inf THEN (IF b = 0 THEN NaN ELSE Inf)
    ELSE (a \div Scale) * b + ((a % Scale) * b) \div Scale

\* a / n for an integer count n > 0
FDivCount(a, n) ==
    IF a = NaN THEN NaN
    ELSE IF a = Inf THEN Inf
    ELSE a \div n

\* a > b as f32 compares: false when either is NaN
FGreater(a, b) == a # NaN /\ b # NaN /\ a > b

(***************************************************************************)
(* Scores are u32.  They are counted in units of 2^20 points, so that the  *)
(* u32 range 2^32 is U32Range units: sums are taken modulo U32Range in a   *)
(* build without overflow checks and abort in a build with them.           *)
(***************************************************************************)
U32Range == 2^12
U8Max == 255

\* the constants of match_costs.rs
FLAT_PARTICIPATION_BONUS == Scale \div 2
TIEBREAKER_BONUS == 2 * Scale
MOD_BONUS == Scale \div 50

\* BASE_PARTICIPATION_BONUS.powf(exp.powf(EXP_PARTICIPATION_BONUS)) for
\* exp = p / q: 1.4 ^ ((p / q) ^ 0.6), row q, column p + 1
ParticipationTable ==
    << <<10000, 14000, 16653, 19164, 21663, 24200, 26803, 29490, 32274, 35165, 38172, 41303>>,
       <<10000, 12486, 14000, 15359, 16653, 17915, 19164, 20411, 21663, 22924, 24200, 25492>>,
       <<10000, 11901, 13019, 14000, 14916, 15796, 16653, 17497, 18332, 19164, 19995, 20828>>,
       <<10000, 11577, 12486, 13273, 14000, 14691, 15359, 16012, 16653, 17287, 17915, 18541>>,
       <<10000, 11367, 12143, 12810, 13422, 14000, 14555, 15094, 15622, 16141, 16653, 17160>> >>

\* an exponent of costs_len / len, without the two subtractions
ParticipationFactor_no_offset(costs_len, len) ==
    IF len = 1 THEN ParticipationTable[1][1]
    ELSE ParticipationTable[len][costs_len + 1]

\* the factor of line 276 for costs_len point costs in a match of len games
ParticipationFactor(costs_len, len) ==
    IF len = 1 THEN ParticipationTable[1][1]
    ELSE ParticipationTable[len - 1][costs_len]

(***************************************************************************)
(* The input domain.                                                       *)
(***************************************************************************)
MaxGames == 3

NoMod == {}
Blue == "Blue"
Red == "Red"
NoTeam == "None"
TeamVS == "TeamVS"
HeadToHead == "HeadToHead"

Score(u, s, m, t) == [user_id |-> u, score |-> s, mods |-> m, team |-> t]
Game(tt, scores) == [team_type |-> tt, scores |-> scores]

\* mod combinations (GameMods), as sets of mods
NoFail == {"NF"}
Hidden == {"HD"}
HardRock == {"HR"}
DoubleTime == {"DT"}
HiddenNoFail == {"HD", "NF"}

\* 2^31 points, in score units
HalfRange == U32Range \div 2

\* head-to-head games of three players without mods
HeadToHeadGames ==
    { Game(HeadToHead, << Score(1, a, NoMod, NoTeam), Score(2, b, NoMod, NoTeam),
                          Score(3, c, NoMod, NoTeam) >>) :
        a \in {1, 3}, b \in {0, 3}, c \in {0, 3} }

\* team games of one player a side, with the game nobody scores in
TeamGames ==
    { Game(TeamVS, << Score(1, a, NoMod, Blue), Score(2, b, NoMod, Red) >>) :
        a \in {0, 1, 3}, b \in {0, 1, 3} }

\* games whose team type varies, with a player who changes sides and one
\* who has no team
MixedGames ==
    { Game(tt, << Score(1, 1, NoMod, Blue), Score(2, 3, NoMod, t),
                  Score(3, c, NoMod, NoTeam) >>) :
        tt \in {TeamVS, HeadToHead}, t \in {Red, Blue}, c \in {0, 3} }

\* team games in which the first player varies the mods
ModGames ==
    { Game(TeamVS, << Score(1, a, m, Blue), Score(2, 2, NoMod, Red) >>) :
        a \in {1, 3}, m \in {NoMod, NoFail, Hidden, HardRock} }

\* games that list the first player twice
RepeatGames ==
    { Game(HeadToHead, << Score(1, 1, m, NoTeam), Score(1, 3, n, NoTeam),
                          Score(2, b, NoMod, NoTeam) >>) :
        m \in {NoMod, Hidden}, n \in {HardRock, DoubleTime}, b \in {0, 1} }

\* games whose scores sum to 2^32 or more
LargeGames ==
    { Game(TeamVS, << Score(1, a, NoMod, Blue), Score(2, b, NoMod, t) >>) :
        a \in {1, HalfRange}, b \in {HalfRange, HalfRange + 1}, t \in {Red, Blue} }

\* team games with a scorer who has no team
UnteamedGames ==
    { Game(TeamVS, << Score(1, a, NoMod, Blue), Score(2, 1, NoMod, Red),
                      Score(3, c, NoMod, NoTeam) >>) :
        a \in {0, 2}, c \in {0, 3} }

\* games in which the first player, with or without a score, varies the mods
IdleModGames ==
    { Game(HeadToHead, << Score(1, a, m, NoTeam), Score(2, 1, NoMod, NoTeam) >>) :
        a \in {0, 1}, m \in {NoMod, Hidden, HiddenNoFail, HardRock} }

\* team games with a score of 2^31 under varying mods
LargeModGames ==
    { Game(TeamVS, << Score(1, HalfRange, m, Blue), Score(2, b, NoMod, Red) >>) :
        m \in {NoMod, Hidden, HardRock}, b \in {1, HalfRange} }

AllUsers == {1, 2, 3}

\* the families of inputs: the games to draw from, and the values of
\* finished and users to combine them with
Families ==
    << [games |-> HeadToHeadGames, finished |-> BOOLEAN, users |-> {AllUsers, {1, 2}, {}}],
       [games |-> TeamGames, finished |-> BOOLEAN, users |-> {AllUsers}],
       [games |-> MixedGames, finished |-> BOOLEAN, users |-> {AllUsers}],
       [games |-> ModGames, finished |-> BOOLEAN, users |-> {AllUsers}],
       [games |-> RepeatGames, finished |-> {TRUE}, users |-> {AllUsers}],
       [games |-> UnteamedGames, finished |-> {TRUE}, users |-> {AllUsers}],
       [games |-> IdleModGames, finished |-> {TRUE}, users |-> {AllUsers}],
       [games |-> LargeGames, finished |-> {TRUE}, users |-> {AllUsers}],
       [games |-> LargeModGames, finished |-> {TRUE}, users |-> {AllUsers}] >>

VARIABLES
    games,            \* the argument games: &[MatchGame]
    finished,         \* the argument finished
    users,            \* the ids that have an entry in the argument users
    overflow_checks,  \* whether the build aborts on integer overflow
    pc,               \* the stage process_match is in
    game_idx,         \* the index of the game the first loop reads next
    teams,            \* user id -> team
    point_costs,      \* user id -> sequence of point costs
    mods,             \* user id -> set of mod combinations
    match_scores,     \* MatchScores(blue, red)
    tiebreaker,       \* whether the tiebreaker branch was taken
    processed,        \* the user ids the second loop has visited, in order
    data,             \* team -> sequence of <<user id, match cost>>
    highest_cost,
    mvp_avatar_url,   \* Option: 0 is None, u is the avatar of user u
    result            \* the MatchResult returned

\* the state of process_match
match_vars == << games, finished, users, overflow_checks, pc, game_idx, teams,
                 point_costs, mods, match_scores, tiebreaker, processed, data,
                 highest_cost, mvp_avatar_url, result >>

\* the state of the command _matchcosts, which fetches the match, calls
\* retrieve_previous and decides whether process_match is called
VARIABLES
    cmd_pc,                \* the position of _matchcosts
    warmups,               \* args.warmups
    history,               \* the pages before the match's events, latest first
    osu_match,             \* the OsuMatch: its events and users
    prev,                  \* Option<OsuMatch> of retrieve_previous: << >> is None
    curr,                  \* the page curr refers to: 0 is osu_match itself
    iter,                  \* the iterations of the loop of retrieve_previous
    mc_games,              \* the games left after the warmups
    mc_users,              \* the HashSet users of _matchcosts
    description,           \* Option<String>: "" is None
    called_process_match,
    reply,                 \* the message the command answers with
    cmd_result             \* the BotResult returned

command_vars == << cmd_pc, warmups, history, osu_match, prev, curr, iter, mc_games,
                   mc_users, description, called_process_match, reply, cmd_result >>

\* the command is not running
CommandIdle ==
    /\ cmd_pc = "idle"
    /\ warmups = 0
    /\ history = << >>
    /\ osu_match = [events |-> << >>, users |-> {}]
    /\ prev = << >>
    /\ curr = 0
    /\ iter = 0
    /\ mc_games = << >>
    /\ mc_users = {}
    /\ description = ""
    /\ called_process_match = FALSE
    /\ reply = ""
    /\ cmd_result = ""

\* process_match is not running
MatchIdle ==
    /\ games = << >>
    /\ finished = FALSE
    /\ users = {}
    /\ overflow_checks = FALSE
    /\ pc = "idle"
    /\ game_idx = 0
    /\ teams = << >>
    /\ point_costs = << >>
    /\ mods = << >>
    /\ match_scores = << 0, 0 >>
    /\ tiebreaker = FALSE
    /\ processed = << >>
    /\ data = << >>
    /\ highest_cost = 0
    /\ mvp_avatar_url = 0
    /\ result = [kind |-> "Pending"]

\* the state of handle_command, process_command and pre_process_command
\* for one slash command
VARIABLES
    command,          \* the ApplicationCommand: its name, guild and author
    env,              \* what the context answers: cache, buckets, authorities
    args,             \* the CommandArgs handle_command sets for the name
    pre_pc,           \* the position in handle_command
    events,           \* the checks passed, responses sent and handler call, in order
    process_result,   \* Option<ProcessResult>: "" is None
    handle_result     \* the BotResult of handle_command

interaction_vars == << command, env, args, pre_pc, events, process_result,
                       handle_result >>

\* no slash command is handled
InteractionIdle ==
    /\ command = [name |-> "", guild_id |-> FALSE, author |-> "none"]
    /\ env = << >>
    /\ args = << >>
    /\ pre_pc = "idle"
    /\ events = << >>
    /\ process_result = ""
    /\ handle_result = ""

\* the state of the invocations of slash_higherlower
VARIABLES
    hl_games,         \* ctx.hl_games(): user -> the game registered
    hl_user,          \* invocation -> the user of the command
    hl_pc,            \* invocation -> its position in slash_higherlower
    hl_reply          \* invocation -> what the command was updated with

higherlower_vars == << hl_games, hl_user, hl_pc, hl_reply >>

\* no /higherlower is invoked
HigherLowerIdle ==
    /\ hl_games = << >>
    /\ hl_user = << >>
    /\ hl_pc = << >>
    /\ hl_reply = << >>

\* the state of GuildConfigManager and of the calls in progress
VARIABLES
    guild_configs,    \* the cache: guild -> GuildConfig
    psql,             \* the database: guild -> the GuildConfig last upserted
    cfg_call,         \* call -> the method called, its guild and its closure
    cfg_pc,           \* call -> its position
    cfg_config,       \* call -> the local config
    cfg_res           \* call -> the Result of the upsert: "" before it

config_vars == << guild_configs, psql, cfg_call, cfg_pc, cfg_config, cfg_res >>

\* the manager is not used
ConfigIdle ==
    /\ guild_configs = << >>
    /\ psql = << >>
    /\ cfg_call = << >>
    /\ cfg_pc = << >>
    /\ cfg_config = << >>
    /\ cfg_res = << >>

\* the state outside process_match
other_vars == << command_vars, interaction_vars, higherlower_vars, config_vars >>

OthersIdle == CommandIdle /\ InteractionIdle /\ HigherLowerIdle /\ ConfigIdle

vars == << match_vars, other_vars >>

\* the state outside the command
outside_command == << match_vars, interaction_vars, higherlower_vars, config_vars >>

OutsideCommandIdle == MatchIdle /\ InteractionIdle /\ HigherLowerIdle /\ ConfigIdle

\* the state outside the handling of a slash command
outside_interaction == << match_vars, command_vars, higherlower_vars, config_vars >>

OutsideInteractionIdle == MatchIdle /\ CommandIdle /\ HigherLowerIdle /\ ConfigIdle

\* the state outside slash_higherlower
outside_higherlower == << match_vars, command_vars, interaction_vars, config_vars >>

OutsideHigherLowerIdle == MatchIdle /\ CommandIdle /\ InteractionIdle /\ ConfigIdle

\* the state outside GuildConfigManager
outside_config == << match_vars, command_vars, interaction_vars, higherlower_vars >>

OutsideConfigIdle == MatchIdle /\ CommandIdle /\ InteractionIdle /\ HigherLowerIdle

Range(s) == {s[k] : k \in 1..Len(s)}
EmptyMap == [x \in {} |-> 0]
Get(map, key, default) == IF key \in DOMAIN map THEN map[key] ELSE default
Insert(map, key, value) ==
    [x \in DOMAIN map \cup {key} |-> IF x = key THEN value ELSE map[x]]

RECURSIVE SumTo(_, _)
\* the mathematical sum of the first k scores
SumTo(scores, k) == IF k = 0 THEN 0 ELSE SumTo(scores, k - 1) + scores[k].score

HasLargeSum(gs) ==
    \E g \in 1..Len(gs) : SumTo(gs[g].scores, Len(gs[g].scores)) >= U32Range

\* a filter that lets every score through
IsValid_unfiltered(score) == score.score >= 0

\* line 206: the filter of the loops over a game's scores
IsValid(score) == score.score > 0

ValidCount(scores) == Cardinality({k \in 1..Len(scores) : IsValid(scores[k])})

\* line 211: score.score as f32 / avg, where avg = sum as f32 / n as f32
DivByAvg(score, sum, n) ==
    IF n = 0 THEN NaN
    ELSE IF sum = 0 THEN (IF score = 0 THEN NaN ELSE Inf)
    ELSE (score * n * Scale) \div sum

\* the loop body with the team overwritten by every score
ScoreBody_last_team(acc, score, sum, n) ==
    LET point_cost == FAdd(DivByAvg(score.score, sum, n), FLAT_PARTICIPATION_BONUS)
        team_sum == Get(acc.team_scores, score.team, 0) + score.score
    IN  [mods |-> Insert(acc.mods, score.user_id,
                         Get(acc.mods, score.user_id, {}) \cup {score.mods \ NoFail}),
         point_costs |-> Insert(acc.point_costs, score.user_id,
                                Append(Get(acc.point_costs, score.user_id, <<>>), point_cost)),
         teams |-> Insert(acc.teams, score.user_id, score.team),
         team_scores |-> Insert(acc.team_scores, score.team, team_sum % U32Range),
         overflow |-> acc.overflow \/ team_sum >= U32Range]

\* the loop body with NoFail kept in the mods
ScoreBody_keep_nofail(acc, score, sum, n) ==
    LET point_cost == FAdd(DivByAvg(score.score, sum, n), FLAT_PARTICIPATION_BONUS)
        team_sum == Get(acc.team_scores, score.team, 0) + score.score
    IN  [mods |-> Insert(acc.mods, score.user_id,
                         Get(acc.mods, score.user_id, {}) \cup {score.mods}),
         point_costs |-> Insert(acc.point_costs, score.user_id,
                                Append(Get(acc.point_costs, score.user_id, <<>>), point_cost)),
         teams |-> Insert(acc.teams, score.user_id,
                          Get(acc.teams, score.user_id, score.team)),
         team_scores |-> Insert(acc.team_scores, score.team, team_sum % U32Range),
         overflow |-> acc.overflow \/ team_sum >= U32Range]

\* lines 207-223: the body of the loop over the valid scores
ScoreBody(acc, score, sum, n) ==
    LET point_cost == FAdd(DivByAvg(score.score, sum, n), FLAT_PARTICIPATION_BONUS)
        team_sum == Get(acc.team_scores, score.team, 0) + score.score
    IN  [mods |-> Insert(acc.mods, score.user_id,
                         Get(acc.mods, score.user_id, {}) \cup {score.mods \ NoFail}),
         point_costs |-> Insert(acc.point_costs, score.user_id,
                                Append(Get(acc.point_costs, score.user_id, <<>>), point_cost)),
         teams |-> Insert(acc.teams, score.user_id,
                          Get(acc.teams, score.user_id, score.team)),
         team_scores |-> Insert(acc.team_scores, score.team, team_sum % U32Range),
         overflow |-> acc.overflow \/ team_sum >= U32Range]

RECURSIVE ScoreLoop(_, _, _, _, _)
\* lines 206-224: the loop over the first k scores of a game
ScoreLoop(acc, scores, k, sum, n) ==
    IF k = 0 THEN acc
    ELSE LET before == ScoreLoop(acc, scores, k - 1, sum, n)
         IN  IF IsValid(scores[k]) THEN ScoreBody(before, scores[k], sum, n)
             ELSE before

\* a winner that defaults to Blue when no team scored
Winners_default_blue(team_scores) ==
    IF DOMAIN team_scores = {} THEN {Blue}
    ELSE {t \in DOMAIN team_scores :
            \A o \in DOMAIN team_scores : team_scores[o] <= team_scores[t]}

\* lines 226-229: max_by_key over the hash map team_scores returns the last
\* maximum in iteration order, which is any team holding the maximum
Winners(team_scores) ==
    IF DOMAIN team_scores = {} THEN {NoTeam}
    ELSE {t \in DOMAIN team_scores :
            \A o \in DOMAIN team_scores : team_scores[o] <= team_scores[t]}

saturating_add(a, b) == IF a + b > U8Max THEN U8Max ELSE a + b

\* a tally that counts a game without a winning team for Blue
incr_none_as_blue(scores, winner) ==
    IF winner = Red THEN << scores[1], saturating_add(scores[2], 1) >>
    ELSE << saturating_add(scores[1], 1), scores[2] >>

\* MatchScores::incr
incr(scores, winner) ==
    IF winner = Blue THEN << saturating_add(scores[1], 1), scores[2] >>
    ELSE IF winner = Red THEN << scores[1], saturating_add(scores[2], 1) >>
    ELSE scores

\* MatchScores::difference
difference(scores) ==
    LET min == IF scores[1] < scores[2] THEN scores[1] ELSE scores[2]
        max == IF scores[1] < scores[2] THEN scores[2] ELSE scores[1]
    IN  max - min

Init ==
    /\ \E f \in 1..Len(Families) :
        /\ \E len \in 1..MaxGames : games \in [1..len -> Families[f].games]
        /\ finished \in Families[f].finished
        /\ users \in Families[f].users
    \* the two builds differ only on an input with a sum outside the u32 range
    /\ overflow_checks \in IF HasLargeSum(games) THEN BOOLEAN ELSE {FALSE}
    /\ pc = "collect"
    /\ game_idx = 1
    /\ teams = EmptyMap
    /\ point_costs = EmptyMap
    /\ mods = EmptyMap
    /\ match_scores = << 0, 0 >>
    /\ tiebreaker = FALSE
    /\ processed = << >>
    /\ data = EmptyMap
    /\ highest_cost = 0
    /\ mvp_avatar_url = 0
    /\ result = [kind |-> "Pending"]
    /\ OthersIdle

\* the team type of the last game
team_vs_last_game == games[Len(games)].team_type = TeamVS

\* line 197
team_vs == games[1].team_type = TeamVS

\* lines 202-224: the maps after the loop over the scores of one game
GameScores(game, mod_sets, costs, team_of) ==
    ScoreLoop([mods |-> mod_sets, point_costs |-> costs, teams |-> team_of,
               team_scores |-> EmptyMap, overflow |-> FALSE],
              game.scores, Len(game.scores),
              SumTo(game.scores, Len(game.scores)) % U32Range,
              ValidCount(game.scores))

\* lines 201-232: one iteration of the loop over the games
CollectGame ==
    /\ pc = "collect"
    /\ LET game == games[game_idx]
           total == SumTo(game.scores, Len(game.scores))
           acc == GameScores(game, mods, point_costs, teams)
       IN  IF overflow_checks /\ (total >= U32Range \/ acc.overflow)
           THEN /\ pc' = "panic"
                /\ UNCHANGED << game_idx, teams, point_costs, mods, match_scores >>
           ELSE /\ \E winner_team \in Winners(acc.team_scores) :
                        match_scores' = incr(match_scores, winner_team)
                /\ mods' = acc.mods
                /\ point_costs' = acc.point_costs
                /\ teams' = acc.teams
                /\ game_idx' = game_idx + 1
                /\ pc' = IF game_idx = Len(games) THEN "tiebreaker" ELSE "collect"
    /\ UNCHANGED other_vars
    /\ UNCHANGED << games, finished, users, overflow_checks, tiebreaker, processed,
                    data, highest_cost, mvp_avatar_url, result >>

\* a condition that takes any lead for a tiebreaker
TiebreakerApplies_any_lead ==
    finished /\ Len(games) > 2 /\ difference(match_scores) >= 1

\* line 235
TiebreakerApplies ==
    finished /\ Len(games) > 2 /\ difference(match_scores) = 1

\* line 240: the filter over the entries of point_costs
InLastGame(user_id) ==
    \E k \in 1..Len(games[Len(games)].scores) :
        games[Len(games)].scores[k].user_id = user_id

\* line 242
TiebreakerValue(value) == FSub(FMul(value, TIEBREAKER_BONUS), FLAT_PARTICIPATION_BONUS)

\* lines 238-242
WithTiebreaker(costs) ==
    [u \in DOMAIN costs |->
        IF InLastGame(u)
        THEN [costs[u] EXCEPT ![Len(costs[u])] = TiebreakerValue(@)]
        ELSE costs[u]]

\* lines 234-243
TiebreakerBonus ==
    /\ pc = "tiebreaker"
    /\ IF TiebreakerApplies
       THEN point_costs' = WithTiebreaker(point_costs) /\ tiebreaker' = TRUE
       ELSE UNCHANGED << point_costs, tiebreaker >>
    /\ pc' = "mods"
    /\ UNCHANGED other_vars
    /\ UNCHANGED << games, finished, users, overflow_checks, game_idx, teams, mods,
                    match_scores, processed, data, highest_cost, mvp_avatar_url,
                    result >>

\* a multiplier that counts every combination, not only those beyond two
ModMultiplier_all_combinations(count) == Scale + (count + 2) * MOD_BONUS

\* line 252
ModMultiplier(count) == Scale + count * MOD_BONUS

\* lines 246-259
WithModBonus(costs, mod_sets) ==
    [u \in DOMAIN costs |->
        IF u \in DOMAIN mod_sets /\ Cardinality(mod_sets[u]) > 2
        THEN [k \in 1..Len(costs[u]) |->
                FMul(costs[u][k], ModMultiplier(Cardinality(mod_sets[u]) - 2))]
        ELSE costs[u]]

\* lines 245-259
ModBonus ==
    /\ pc = "mods"
    /\ point_costs' = WithModBonus(point_costs, mods)
    /\ pc' = "aggregate"
    /\ UNCHANGED other_vars
    /\ UNCHANGED << games, finished, users, overflow_checks, game_idx, teams, mods,
                    match_scores, tiebreaker, processed, data, highest_cost,
                    mvp_avatar_url, result >>

RECURSIVE FSum(_, _)
FSum(costs, k) == IF k = 0 THEN 0 ELSE FAdd(FSum(costs, k - 1), costs[k])

\* lines 267-276
MatchCost(costs, len) ==
    FMul(FDivCount(FSum(costs, Len(costs)), Len(costs)),
         ParticipationFactor(Len(costs), len))

\* line 282
IsNewHighest(match_cost, highest) == FGreater(match_cost, highest)

\* an iteration that records a match cost only for a player found in users
PlayerStep_known_users_only(agg, user_id, match_cost, key) ==
    [data |-> IF user_id \in users
              THEN Insert(agg.data, key,
                          Append(Get(agg.data, key, << >>), << user_id, match_cost >>))
              ELSE agg.data,
     highest_cost |->
        IF IsNewHighest(match_cost, agg.highest_cost) THEN match_cost
        ELSE agg.highest_cost,
     mvp_avatar_url |->
        IF IsNewHighest(match_cost, agg.highest_cost) /\ user_id \in users
        THEN user_id
        ELSE agg.mvp_avatar_url]

\* lines 278-288: what one iteration of the loop over point_costs does to
\* data, highest_cost and mvp_avatar_url
PlayerStep(agg, user_id, match_cost, key) ==
    [data |-> Insert(agg.data, key,
                     Append(Get(agg.data, key, << >>), << user_id, match_cost >>)),
     highest_cost |->
        IF IsNewHighest(match_cost, agg.highest_cost) THEN match_cost
        ELSE agg.highest_cost,
     mvp_avatar_url |->
        IF IsNewHighest(match_cost, agg.highest_cost) /\ user_id \in users
        THEN user_id
        ELSE agg.mvp_avatar_url]

\* lines 266-289: one iteration of the loop over point_costs, a hash map,
\* whose iteration order is any order
AggregatePlayer ==
    /\ pc = "aggregate"
    /\ \E user_id \in DOMAIN point_costs \ Range(processed) :
        LET agg == PlayerStep([data |-> data, highest_cost |-> highest_cost,
                               mvp_avatar_url |-> mvp_avatar_url],
                              user_id,
                              MatchCost(point_costs[user_id], Len(games)),
                              teams[user_id])
        IN  /\ data' = agg.data
            /\ highest_cost' = agg.highest_cost
            /\ mvp_avatar_url' = agg.mvp_avatar_url
            /\ processed' = Append(processed, user_id)
    /\ UNCHANGED other_vars
    /\ UNCHANGED << games, finished, users, overflow_checks, pc, game_idx, teams,
                    point_costs, mods, match_scores, tiebreaker, result >>

Orderings(s) ==
    { [k \in 1..Len(s) |-> s[p[k]]] :
        p \in {q \in [1..Len(s) -> 1..Len(s)] : \A a, b \in 1..Len(s) : a # b => q[a] # q[b]} }

\* a sort that leaves the slice as it is
sort_skipped(slice) == {slice}

\* a sort that also drops an element equal to its predecessor
sort_dedup(slice) ==
    { SelectSeq(s, LAMBDA e : \A k \in 2..Len(s) : s[k] # e \/ s[k - 1][2] # e[2]) :
        s \in { o \in Orderings(slice) :
                    \A k \in 1..(Len(o) - 1) : o[k][2] >= o[k + 1][2] } }

\* the comparator of sort!: b.partial_cmp(a).unwrap_or(Equal) puts x before y
\* unless y is greater
InOrder(x, y) == ~FGreater(y[2], x[2])

\* sort!: sort_unstable_by leaves the slice ordered by the comparator and may
\* reorder equal elements
sort(slice) ==
    { s \in Orderings(slice) : \A k \in 1..(Len(s) - 1) : InOrder(s[k], s[k + 1]) }

\* a team result whose red list was not filled
MatchResult_team_red_missing(mvp, scores, blue, red) ==
    [kind |-> TeamVS, mvp_avatar_url |-> mvp, match_scores |-> scores,
     blue |-> blue, red |-> << >>]

\* MatchResult::team
MatchResult_team(mvp, scores, blue, red) ==
    [kind |-> TeamVS, mvp_avatar_url |-> mvp, match_scores |-> scores,
     blue |-> blue, red |-> red]

\* MatchResult::solo
MatchResult_solo(mvp, players) ==
    [kind |-> HeadToHead, mvp_avatar_url |-> mvp, players |-> players]

\* lines 291-318
Return ==
    /\ pc = "aggregate"
    /\ DOMAIN point_costs \ Range(processed) = {}
    /\ IF team_vs
       THEN \E blue \in sort(Get(data, Blue, << >>)), red \in sort(Get(data, Red, << >>)) :
                result' = MatchResult_team(mvp_avatar_url, match_scores, blue, red)
       ELSE \E players \in sort(Get(data, NoTeam, << >>)) :
                result' = MatchResult_solo(mvp_avatar_url, players)
    /\ pc' = "done"
    /\ UNCHANGED other_vars
    /\ UNCHANGED << games, finished, users, overflow_checks, game_idx, teams,
                    point_costs, mods, match_scores, tiebreaker, processed, data,
                    highest_cost, mvp_avatar_url >>

Next ==
    \/ CollectGame
    \/ TiebreakerBonus
    \/ ModBonus
    \/ AggregatePlayer
    \/ Return

Spec == Init /\ [][Next]_vars

----------------------------------------------------------------------------
\* The command _matchcosts and retrieve_previous

USER_LIMIT == 50

\* for _ in 0..5
PREVIOUS_LIMIT == 5

TOO_MANY_PLAYERS_TEXT == "Too many players, cannot display message :("

\* the most pages a match has before its own events
MaxPages == 6

\* a page holds a first event that is no game and a second one that is no
\* game, a game of 25 scorers or a game of 26 scorers
PageKinds == {"chat", "game25", "game26"}

\* the score records of the game of page k: the scorers of the page, each
\* with a score above 0, and one record with score 0
ScoresOf(k, kind) ==
    IF kind = "chat" THEN {}
    ELSE { [user_id |-> 100 * k + i, score |-> 1] :
             i \in 1..(IF kind = "game25" THEN 25 ELSE 26) }
         \cup { [user_id |-> 100 * k + 99, score |-> 0] }

\* page k of the match, page 0 being the latest: its events, of increasing
\* id and later than those of page k + 1, and the users of its scores
Page(k, kind) ==
    [events |-> << [id |-> 100 - 2 * k, kind |-> "other", scores |-> {}],
                   [id |-> 101 - 2 * k,
                    kind |-> IF kind = "chat" THEN "other" ELSE "game",
                    scores |-> ScoresOf(k, kind)] >>,
     users |-> { r.user_id : r \in ScoresOf(k, kind) }]

CommandInit ==
    /\ cmd_pc = "fetch"
    /\ warmups \in 0..2
    /\ \E n \in 0..MaxPages : \E kinds \in [1..n -> PageKinds] :
        history = [k \in 1..n |-> Page(k, kinds[k])]
    /\ \E kind \in PageKinds : osu_match = Page(0, kind)
    /\ prev = << >>
    /\ curr = 0
    /\ iter = 0
    /\ mc_games = << >>
    /\ mc_users = {}
    /\ description = ""
    /\ called_process_match = FALSE
    /\ reply = ""
    /\ cmd_result = ""
    /\ OutsideCommandIdle

\* lines 58-72: ctx.osu().osu_match(match_id)
FetchMatch ==
    /\ cmd_pc = "fetch"
    /\ \E outcome \in {"Ok", "NotFound", "Err"} :
        /\ cmd_pc' = IF outcome = "Ok" THEN "previous" ELSE "done"
        /\ reply' = IF outcome = "NotFound" THEN "invalid id or private match"
                    ELSE IF outcome = "Err" THEN "OSU_API_ISSUE"
                    ELSE reply
        /\ cmd_result' = IF outcome = "NotFound" THEN "Ok"
                         ELSE IF outcome = "Err" THEN "Err"
                         ELSE cmd_result
    /\ UNCHANGED << warmups, history, osu_match, prev, curr, iter, mc_games, mc_users,
                    description, called_process_match >>
    /\ UNCHANGED outside_command

\* a merge that puts the events of page after those of the match
Merged_appended(page, match) ==
    [events |-> match.events \o page.events,
     users |-> match.users \cup page.users]

\* lines 149-153 and 159-163: the events of page come before those of the
\* match, the users are added
Merged(page, match) ==
    [events |-> page.events \o match.events,
     users |-> match.users \cup page.users]

\* lines 141-154: an iteration whose curr has a previous page; the fetch
\* succeeds or fails
GetPrevious ==
    /\ cmd_pc = "previous"
    /\ iter < PREVIOUS_LIMIT
    /\ curr < Len(history)
    /\ \E fetched \in BOOLEAN :
        IF fetched
        THEN /\ prev' = << history[curr + 1] >>
             /\ curr' = curr + 1
             /\ iter' = iter + 1
             /\ osu_match' = IF prev = << >> THEN osu_match
                             ELSE Merged(prev[1], osu_match)
             /\ UNCHANGED << cmd_pc, cmd_result >>
        ELSE /\ cmd_pc' = "done"
             /\ cmd_result' = "Err"
             /\ UNCHANGED << prev, curr, iter, osu_match >>
    /\ UNCHANGED << warmups, history, mc_games, mc_users, description,
                    called_process_match, reply >>
    /\ UNCHANGED outside_command

\* lines 155-164: the loop ends, after its last iteration or at a page
\* without a previous one, and the page held in prev is merged
MergeLast ==
    /\ cmd_pc = "previous"
    /\ iter = PREVIOUS_LIMIT \/ curr = Len(history)
    /\ osu_match' = IF prev = << >> THEN osu_match ELSE Merged(prev[1], osu_match)
    /\ prev' = << >>
    /\ cmd_pc' = "drain"
    /\ UNCHANGED << warmups, history, curr, iter, mc_games, mc_users, description,
                    called_process_match, reply, cmd_result >>
    /\ UNCHANGED outside_command

\* osu_match.drain_games()
drain_games(match) ==
    LET game_events == SelectSeq(match.events, LAMBDA e : e.kind = "game")
    IN  [k \in 1..Len(game_events) |-> [scores |-> game_events[k].scores]]

\* Iterator::skip
skip(seq, n) == SubSeq(seq, n + 1, Len(seq))

\* lines 76-82
CountedUsers(gs) ==
    UNION { { r.user_id : r \in { x \in gs[k].scores : x.score > 0 } } :
            k \in 1..Len(gs) }

\* lines 62 and 76-82
DrainGames ==
    /\ cmd_pc = "drain"
    /\ mc_games' = skip(drain_games(osu_match), warmups)
    /\ mc_users' = CountedUsers(mc_games')
    /\ cmd_pc' = "guard"
    /\ UNCHANGED << warmups, history, osu_match, prev, curr, iter, description,
                    called_process_match, reply, cmd_result >>
    /\ UNCHANGED outside_command

\* a limit that lets one more user through
TooManyUsers_one_more(counted) == Cardinality(counted) > USER_LIMIT + 1

\* line 85
TooManyUsers(counted) == Cardinality(counted) > USER_LIMIT

\* lines 85-100
Guard ==
    /\ cmd_pc = "guard"
    /\ IF TooManyUsers(mc_users)
       THEN /\ reply' = TOO_MANY_PLAYERS_TEXT
            /\ cmd_result' \in {"Ok", "Err"}
            /\ cmd_pc' = "done"
            /\ UNCHANGED << description, called_process_match >>
       ELSE /\ IF mc_games = << >>
               THEN /\ description' = "No games played yet beyond the warmups"
                    /\ UNCHANGED called_process_match
               ELSE /\ called_process_match' = TRUE
                    /\ UNCHANGED description
            /\ cmd_pc' = "embed"
            /\ UNCHANGED << reply, cmd_result >>
    /\ UNCHANGED << warmups, history, osu_match, prev, curr, iter, mc_games, mc_users >>
    /\ UNCHANGED outside_command

\* lines 103-133: MatchCostEmbed::new gives an embed or None, and the
\* message is sent or not
BuildEmbed ==
    /\ cmd_pc = "embed"
    /\ \E built \in BOOLEAN :
        reply' = IF built THEN "embed" ELSE TOO_MANY_PLAYERS_TEXT
    /\ cmd_result' \in {"Ok", "Err"}
    /\ cmd_pc' = "done"
    /\ UNCHANGED << warmups, history, osu_match, prev, curr, iter, mc_games, mc_users,
                    description, called_process_match >>
    /\ UNCHANGED outside_command

CommandNext ==
    \/ FetchMatch
    \/ GetPrevious
    \/ MergeLast
    \/ DrainGames
    \/ Guard
    \/ BuildEmbed

CommandSpec == CommandInit /\ [][CommandNext]_vars

----------------------------------------------------------------------------
\* handle_command, process_command and pre_process_command

HELP == "help"

\* the names handle_command tells apart by the arguments it sets
CommandNames == {"avatar", "config", HELP, "matchlive", "owner", "prune", "snipe"}

\* CommandArgs::default(); bucket "" is None
DefaultArgs ==
    [authority |-> FALSE, bucket |-> "", ephemeral |-> FALSE,
     only_guilds |-> FALSE, only_owner |-> FALSE]

\* the arguments of a dispatch that forgets only_owner
ArgsOf_owner_unmarked(name) ==
    IF name = "config" THEN [DefaultArgs EXCEPT !.ephemeral = TRUE]
    ELSE IF name = "matchlive" THEN [DefaultArgs EXCEPT !.authority = TRUE]
    ELSE IF name = "owner" THEN [DefaultArgs EXCEPT !.ephemeral = TRUE]
    ELSE IF name = "prune"
    THEN [DefaultArgs EXCEPT !.authority = TRUE, !.only_guilds = TRUE]
    ELSE IF name = "snipe" THEN [DefaultArgs EXCEPT !.bucket = "Snipe"]
    ELSE DefaultArgs

\* the arms of the match in handle_command
ArgsOf(name) ==
    IF name = "config" THEN [DefaultArgs EXCEPT !.ephemeral = TRUE]
    ELSE IF name = "matchlive" THEN [DefaultArgs EXCEPT !.authority = TRUE]
    ELSE IF name = "owner"
    THEN [DefaultArgs EXCEPT !.only_owner = TRUE, !.ephemeral = TRUE]
    ELSE IF name = "prune"
    THEN [DefaultArgs EXCEPT !.authority = TRUE, !.only_guilds = TRUE]
    ELSE IF name = "snipe" THEN [DefaultArgs EXCEPT !.bucket = "Snipe"]
    ELSE DefaultArgs

InteractionInit ==
    /\ command \in [name : CommandNames, guild_id : BOOLEAN,
                    author : {"none", "owner", "other"}]
    /\ env \in [current_user : BOOLEAN, send_messages : BOOLEAN,
                ratelimit : {0, 5},
                cooldown : {<< >>, << 5, "Snipe" >>, << 5, "BgHint" >>},
                authority : {"None", "Some", "Err"}]
    /\ args = DefaultArgs
    /\ pre_pc = "handle_command"
    /\ events = << >>
    /\ process_result = ""
    /\ handle_result = ""
    /\ OutsideInteractionIdle

\* a check passed: the next one follows
Passed(check, next) ==
    /\ events' = Append(events, check)
    /\ pre_pc' = next
    /\ UNCHANGED << process_result, handle_result >>

\* premature_error(..).await? followed by return Ok(Some(refusal)): the
\* response is sent, or the request fails and its error is returned
Refused(refusal) ==
    /\ pre_pc' = "done"
    /\ \E sent \in BOOLEAN :
        IF sent
        THEN /\ events' = Append(events, "premature_error")
             /\ process_result' = refusal
             /\ handle_result' = "Ok"
        ELSE /\ handle_result' = "Err"
             /\ UNCHANGED << events, process_result >>

\* return Ok(Some(refusal)) without a response
Dropped(refusal) ==
    /\ pre_pc' = "done"
    /\ process_result' = refusal
    /\ handle_result' = "Ok"
    /\ UNCHANGED events

\* handle_command: the arguments of the name; help goes to its handler
\* without process_command
HandleCommand ==
    /\ pre_pc = "handle_command"
    /\ args' = ArgsOf(command.name)
    /\ pre_pc' = IF command.name = HELP THEN "thinking" ELSE "only_guilds"
    /\ UNCHANGED << command, env, events, process_result, handle_result >>
    /\ UNCHANGED outside_interaction

\* lines 286-291
OnlyGuilds ==
    /\ pre_pc = "only_guilds"
    /\ IF args.only_guilds /\ ~command.guild_id
       THEN Refused("NoDM")
       ELSE Passed("only_guilds", "only_owner")
    /\ UNCHANGED << command, env, args >>
    /\ UNCHANGED outside_interaction

\* lines 293-301
OnlyOwner ==
    /\ pre_pc = "only_owner"
    /\ IF command.author = "none"
       THEN /\ pre_pc' = "done"
            /\ handle_result' = "Err"
            /\ UNCHANGED << events, process_result >>
       ELSE IF args.only_owner /\ command.author # "owner"
       THEN Refused("NoOwner")
       ELSE Passed("only_owner", "send_permission")
    /\ UNCHANGED << command, env, args >>
    /\ UNCHANGED outside_interaction

\* lines 305-317: without a CurrentUser in the cache the check is not made
SendPermission ==
    /\ pre_pc = "send_permission"
    /\ IF env.current_user
       THEN IF ~env.send_messages
            THEN Dropped("NoSendPermission")
            ELSE Passed("send_permission", "ratelimit")
       ELSE /\ pre_pc' = "ratelimit"
            /\ UNCHANGED << events, process_result, handle_result >>
    /\ UNCHANGED << command, env, args >>
    /\ UNCHANGED outside_interaction

\* lines 320-331
Ratelimit ==
    /\ pre_pc = "ratelimit"
    /\ IF env.ratelimit > 0
       THEN Dropped("Ratelimited")
       ELSE Passed("ratelimit", "bucket")
    /\ UNCHANGED << command, env, args >>
    /\ UNCHANGED outside_interaction

\* lines 333-344
Bucket ==
    /\ pre_pc = "bucket"
    /\ IF args.bucket # "" /\ env.cooldown # << >>
       THEN IF env.cooldown[2] # "BgHint"
            THEN Refused("Ratelimited")
            ELSE Dropped("Ratelimited")
       ELSE Passed("bucket", "authority")
    /\ UNCHANGED << command, env, args >>
    /\ UNCHANGED outside_interaction

\* lines 347-362
Authority ==
    /\ pre_pc = "authority"
    /\ IF args.authority /\ env.authority = "Some"
       THEN Refused("NoAuthority")
       ELSE IF args.authority /\ env.authority = "Err"
       THEN /\ pre_pc' = "done"
            /\ handle_result' = "Err"
            /\ \E sent \in BOOLEAN :
                events' = IF sent THEN Append(events, "premature_error") ELSE events
            /\ UNCHANGED process_result
       ELSE Passed("authority", "thinking")
    /\ UNCHANGED << command, env, args >>
    /\ UNCHANGED outside_interaction

\* lines 200-205 and 87: start_thinking or start_thinking_ephemeral
StartThinking ==
    /\ pre_pc = "thinking"
    /\ \E sent \in BOOLEAN :
        IF sent
        THEN /\ events' = Append(events,
                    IF command.name = HELP \/ args.ephemeral
                    THEN "thinking_ephemeral" ELSE "thinking")
             /\ pre_pc' = "handler"
             /\ UNCHANGED handle_result
        ELSE /\ pre_pc' = "done"
             /\ handle_result' = "Err"
             /\ UNCHANGED events
    /\ UNCHANGED << command, env, args, process_result >>
    /\ UNCHANGED outside_interaction

\* lines 208-210 and 89-91: the command function is called
CallHandler ==
    /\ pre_pc = "handler"
    /\ events' = Append(events, "handler")
    /\ \E ok \in BOOLEAN :
        /\ process_result' = IF ok THEN "Success" ELSE ""
        /\ handle_result' = IF ok THEN "Ok" ELSE "Err"
    /\ pre_pc' = "done"
    /\ UNCHANGED << command, env, args >>
    /\ UNCHANGED outside_interaction

InteractionNext ==
    \/ HandleCommand
    \/ OnlyGuilds
    \/ OnlyOwner
    \/ SendPermission
    \/ Ratelimit
    \/ Bucket
    \/ Authority
    \/ StartThinking
    \/ CallHandler

InteractionSpec == InteractionInit /\ [][InteractionNext]_vars

----------------------------------------------------------------------------
\* slash_higherlower: concurrent invocations, each a task of the runtime

MaxInvocations == 3

Invocations == 1..MaxInvocations

HlUsers == {1, 2}

HigherLowerInit ==
    /\ hl_games = << >>
    /\ hl_user \in [Invocations -> HlUsers]
    /\ hl_pc = [i \in Invocations |-> "lookup"]
    /\ hl_reply = [i \in Invocations |-> ""]
    /\ OutsideHigherLowerIdle

\* line 38: the lock is taken for the lookup and released with it
Lookup(i) ==
    /\ hl_pc[i] = "lookup"
    /\ hl_pc' = [hl_pc EXCEPT ![i] =
            IF hl_user[i] \in DOMAIN hl_games THEN "give_up" ELSE "score_pp"]
    /\ UNCHANGED << hl_games, hl_user, hl_reply >>
    /\ UNCHANGED outside_higherlower

\* lines 51-56: the give-up prompt
GiveUp(i) ==
    /\ hl_pc[i] = "give_up"
    /\ \E sent \in BOOLEAN :
        hl_reply' = [hl_reply EXCEPT ![i] = IF sent THEN "give_up" ELSE ""]
    /\ hl_pc' = [hl_pc EXCEPT ![i] = "done"]
    /\ UNCHANGED << hl_games, hl_user >>
    /\ UNCHANGED outside_higherlower

\* lines 58-72: the arguments, the user's mode and the new game
ScorePp(i) ==
    /\ hl_pc[i] = "score_pp"
    /\ \E outcome \in {"Ok", "Err", "NoConfig"} :
        /\ hl_pc' = [hl_pc EXCEPT ![i] = IF outcome = "Ok" THEN "respond" ELSE "done"]
        /\ hl_reply' = [hl_reply EXCEPT ![i] =
                IF outcome = "Err" THEN "GENERAL_ISSUE" ELSE ""]
    /\ UNCHANGED << hl_games, hl_user >>
    /\ UNCHANGED outside_higherlower

\* lines 74-78: the game is shown to the user
Respond(i) ==
    /\ hl_pc[i] = "respond"
    /\ \E sent \in BOOLEAN :
        /\ hl_reply' = [hl_reply EXCEPT ![i] = IF sent THEN "game" ELSE ""]
        /\ hl_pc' = [hl_pc EXCEPT ![i] = IF sent THEN "insert" ELSE "done"]
    /\ UNCHANGED << hl_games, hl_user >>
    /\ UNCHANGED outside_higherlower

\* lines 80-81: the game, its message that of the invocation, is registered
InsertGame(i) ==
    /\ hl_pc[i] = "insert"
    /\ hl_games' = Insert(hl_games, hl_user[i], [msg |-> i])
    /\ hl_pc' = [hl_pc EXCEPT ![i] = "done"]
    /\ UNCHANGED << hl_user, hl_reply >>
    /\ UNCHANGED outside_higherlower

HigherLowerNext ==
    \E i \in Invocations :
        \/ Lookup(i)
        \/ GiveUp(i)
        \/ ScorePp(i)
        \/ Respond(i)
        \/ InsertGame(i)

HigherLowerSpec == HigherLowerInit /\ [][HigherLowerNext]_vars

----------------------------------------------------------------------------
\* GuildConfigManager: concurrent calls of peek and update on one cache and
\* one database

MaxCalls == 3

Calls == 1..MaxCalls

Guilds == {1, 2}

\* a configuration is the set of the modifications made to it
DefaultConfig == {}

\* the closures passed to update; peek's closure reads the configuration
Modifications == {"f", "g"}

Ops == {"peek"} \cup Modifications

\* the configuration a guild was given before the calls
StoredConfig == {"prefix"}

ConfigInit ==
    /\ \E cached \in SUBSET Guilds :
        /\ guild_configs = [g \in cached |-> StoredConfig]
        /\ psql = [g \in cached |-> StoredConfig]
    /\ cfg_call \in [Calls -> [op : Ops, guild_id : Guilds]]
    /\ cfg_pc = [p \in Calls |-> "start"]
    /\ cfg_config = [p \in Calls |-> DefaultConfig]
    /\ cfg_res = [p \in Calls |-> ""]
    /\ OutsideConfigIdle

\* peek, lines 31-38: the cached configuration is read, or the default one
\* goes to store
PeekRead(p) ==
    /\ cfg_pc[p] = "start"
    /\ cfg_call[p].op = "peek"
    /\ IF cfg_call[p].guild_id \in DOMAIN guild_configs
       THEN /\ cfg_pc' = [cfg_pc EXCEPT ![p] = "done"]
            /\ cfg_res' = [cfg_res EXCEPT ![p] = "Ok"]
            /\ cfg_config' = [cfg_config EXCEPT
                    ![p] = guild_configs[cfg_call[p].guild_id]]
       ELSE /\ cfg_pc' = [cfg_pc EXCEPT ![p] = "upsert"]
            /\ cfg_res' = [cfg_res EXCEPT ![p] = "Ok"]
            /\ cfg_config' = [cfg_config EXCEPT ![p] = DefaultConfig]
    /\ UNCHANGED << guild_configs, psql, cfg_call >>
    /\ UNCHANGED outside_config

\* update, lines 61-66: a copy of the cached configuration, or the default
\* one, is modified
UpdateRead(p) ==
    /\ cfg_pc[p] = "start"
    /\ cfg_call[p].op \in Modifications
    /\ cfg_config' = [cfg_config EXCEPT ![p] =
            Get(guild_configs, cfg_call[p].guild_id, DefaultConfig)
                \cup {cfg_call[p].op}]
    /\ cfg_pc' = [cfg_pc EXCEPT ![p] = "upsert"]
    /\ UNCHANGED << guild_configs, psql, cfg_call, cfg_res >>
    /\ UNCHANGED outside_config

\* store, lines 74-78: the upsert, which the database may refuse; peek
\* logs the failure and keeps its result
Upsert(p) ==
    /\ cfg_pc[p] = "upsert"
    /\ \E ok \in BOOLEAN :
        /\ psql' = IF ok
                   THEN Insert(psql, cfg_call[p].guild_id, cfg_config[p])
                   ELSE psql
        /\ cfg_res' = [cfg_res EXCEPT ![p] =
                IF ok \/ cfg_call[p].op = "peek" THEN cfg_res[p] ELSE "Err"]
    /\ cfg_pc' = [cfg_pc EXCEPT ![p] = "insert"]
    /\ UNCHANGED << guild_configs, cfg_call, cfg_config >>
    /\ UNCHANGED outside_config

\* store, lines 80-82: the cache takes the configuration whatever the
\* upsert returned
CacheInsert(p) ==
    /\ cfg_pc[p] = "insert"
    /\ guild_configs' = Insert(guild_configs, cfg_call[p].guild_id, cfg_config[p])
    /\ cfg_pc' = [cfg_pc EXCEPT ![p] = "done"]
    /\ cfg_res' = [cfg_res EXCEPT ![p] = IF cfg_res[p] = "" THEN "Ok" ELSE cfg_res[p]]
    /\ UNCHANGED << psql, cfg_call, cfg_config >>
    /\ UNCHANGED outside_config

ConfigNext ==
    \E p \in Calls :
        \/ PeekRead(p)
        \/ UpdateRead(p)
        \/ Upsert(p)
        \/ CacheInsert(p)

ConfigSpec == ConfigInit /\ [][ConfigNext]_vars

(***************************************************************************)
(* What the properties below read.                                         *)
(***************************************************************************)
ResultLists ==
    IF result.kind = TeamVS THEN {result.blue, result.red}
    ELSE IF result.kind = HeadToHead THEN {result.players}
    ELSE {}

ResultEntries == UNION {Range(list) : list \in ResultLists}

ResultIds == {e[1] : e \in ResultEntries}

\* every <<user id, match cost>> the second loop has computed
AllData == UNION {Range(data[t]) : t \in DOMAIN data}

Listed(u) ==
    \E g \in 1..Len(games) : \E k \in 1..Len(games[g].scores) :
        games[g].scores[k].user_id = u

HasValidScore(u) ==
    \E g \in 1..Len(games) : \E k \in 1..Len(games[g].scores) :
        games[g].scores[k].user_id = u /\ games[g].scores[k].score > 0

NoValidScorer(game) == \A k \in 1..Len(game.scores) : game.scores[k].score = 0

\* C1: every player id in the result (blue, red or players) has a score
\* record with score > 0 in some game; a player whose records are all 0
\* never appears.
C1_OnlyValidScorers ==
    /\ \A e \in AllData : HasValidScore(e[1])
    /\ pc = "done" => \A u \in ResultIds : HasValidScore(u)

C1_Witness ==
    /\ pc = "done"
    /\ ResultIds # {}
    /\ \E u \in AllUsers : Listed(u) /\ ~HasValidScore(u) /\ u \notin ResultIds

\* C2: once the tiebreaker stage has run, the bonus was applied if and only
\* if the match is finished, has more than 2 games and the won-games tallies
\* of blue and red differ by exactly 1.
C2_TiebreakerIff ==
    pc \in {"mods", "aggregate", "done"} =>
        (tiebreaker <=>
            /\ finished
            /\ Len(games) > 2
            /\ \/ match_scores[1] - match_scores[2] = 1
               \/ match_scores[2] - match_scores[1] = 1)

C2_Witness ==
    /\ pc = "done"
    /\ tiebreaker
    /\ Len(games) = 3
    /\ match_scores = << 2, 1 >>

\* C6: every TeamResult returned is sorted non-ascending by match cost:
\* of two adjacent entries the earlier one's cost is at least the later one's.
C6_SortedNonAscending ==
    pc = "done" =>
        \A list \in ResultLists : \A k \in 1..(Len(list) - 1) :
            list[k][2] >= list[k + 1][2]

\* a returned list of three different costs whose order the sort changed
C6_Witness ==
    /\ pc = "done"
    /\ result.kind = HeadToHead
    /\ Len(result.players) = 3
    /\ result.players[1][2] > result.players[2][2]
    /\ result.players[2][2] > result.players[3][2]
    /\ result.players # data[NoTeam]

\* C8: a game in which no score is above 0 adds no point cost and no won
\* game, the step that reads it does not abort, and no match cost returned
\* is NaN.
C8_EmptyGameContributesNothing ==
    [][/\ (pc = "collect" /\ NoValidScorer(games[game_idx])) =>
            /\ point_costs' = point_costs
            /\ match_scores' = match_scores
            /\ pc' # "panic"
       /\ pc' = "done" => \A e \in ResultEntries' : IsNumber(e[2])]_vars

C8_Witness ==
    /\ pc = "done"
    /\ \E g \in 1..Len(games) : NoValidScorer(games[g])
    /\ ResultIds # {}
    /\ \A e \in ResultEntries : IsFiniteNumber(e[2])

\* the returned lists, each with the list of its team as the second loop
\* filled it
ResultPairs ==
    IF result.kind = TeamVS
    THEN {<< result.blue, Get(data, Blue, << >>) >>, << result.red, Get(data, Red, << >>) >>}
    ELSE IF result.kind = HeadToHead
    THEN {<< result.players, Get(data, NoTeam, << >>) >>}
    ELSE {}

Position(list, e) == CHOOSE k \in 1..Len(list) : list[k] = e

HighestOf(entries) == CHOOSE e \in entries : \A o \in entries : o[2] <= e[2]

\* C3: no player in the returned lists has a match cost strictly greater
\* than that of the player whose avatar is returned as mvp_avatar_url.
C3_MvpHasHighestCost ==
    (pc = "done" /\ result.mvp_avatar_url # 0) =>
        \A m \in AllData : m[1] = result.mvp_avatar_url =>
            \A e \in ResultEntries : e[2] <= m[2]

\* C4: when two or more players tie for the highest match cost, the player
\* whose avatar is returned is the one of them that the loop over
\* point_costs visited first.
C4_FirstOfTiedIsMvp ==
    (pc = "done" /\ result.mvp_avatar_url # 0) =>
        LET tied == {e[1] : e \in {o \in AllData : o[2] = HighestOf(AllData)[2]}}
            first == CHOOSE u \in tied :
                        \A o \in tied : Position(processed, u) <= Position(processed, o)
        IN  Cardinality(tied) >= 2 => result.mvp_avatar_url = first

(***************************************************************************)
(* The run of process_match on the same arguments in which every hash map  *)
(* iterates in ascending key order (Blue, Red, None for the teams) and the *)
(* sort keeps equal elements in place.  It is one of the runs of Spec.     *)
(***************************************************************************)
RefWinner(team_scores) ==
    IF Blue \in Winners(team_scores) THEN Blue
    ELSE IF Red \in Winners(team_scores) THEN Red
    ELSE NoTeam

RECURSIVE RefCollected(_)
RefCollected(k) ==
    IF k = 0
    THEN [mods |-> EmptyMap, point_costs |-> EmptyMap, teams |-> EmptyMap,
          match_scores |-> << 0, 0 >>]
    ELSE LET before == RefCollected(k - 1)
             acc == GameScores(games[k], before.mods, before.point_costs, before.teams)
         IN  [mods |-> acc.mods, point_costs |-> acc.point_costs, teams |-> acc.teams,
              match_scores |-> incr(before.match_scores, RefWinner(acc.team_scores))]

RefPointCosts ==
    LET c == RefCollected(Len(games))
    IN  WithModBonus(IF finished /\ Len(games) > 2 /\ difference(c.match_scores) = 1
                     THEN WithTiebreaker(c.point_costs)
                     ELSE c.point_costs,
                     c.mods)

RECURSIVE RefAggregated(_)
RefAggregated(u) ==
    IF u = 0 THEN [data |-> EmptyMap, highest_cost |-> 0, mvp_avatar_url |-> 0]
    ELSE IF u \in DOMAIN RefPointCosts
    THEN PlayerStep(RefAggregated(u - 1), u, MatchCost(RefPointCosts[u], Len(games)),
                    RefCollected(Len(games)).teams[u])
    ELSE RefAggregated(u - 1)

RefSorted(slice) ==
    CHOOSE s \in sort(slice) :
        \A a, b \in 1..Len(s) :
            (a < b /\ s[a][2] = s[b][2]) => Position(slice, s[a]) < Position(slice, s[b])

RefResult ==
    LET agg == RefAggregated(Cardinality(AllUsers))
    IN  IF team_vs
        THEN MatchResult_team(agg.mvp_avatar_url, RefCollected(Len(games)).match_scores,
                              RefSorted(Get(agg.data, Blue, << >>)),
                              RefSorted(Get(agg.data, Red, << >>)))
        ELSE MatchResult_solo(agg.mvp_avatar_url, RefSorted(Get(agg.data, NoTeam, << >>)))

\* C5: process_match is deterministic: whatever order the hash maps iterate
\* in, the result is the one of the run that iterates them in ascending
\* order (same MVP avatar, same tallies, same players in the same order
\* with the same match costs).
C5_Deterministic == pc = "done" => result = RefResult

C9_NeverAborts == pc # "panic"

NumValid(game) == Cardinality({k \in 1..Len(game.scores) : game.scores[k].score > 0})

\* score / average + 0.5, the average being the sum of the game's scores
\* over the number of scores above 0
ExpectedPointCost(game, k) ==
    (game.scores[k].score * NumValid(game) * Scale)
        \div SumTo(game.scores, Len(game.scores)) + Scale \div 2

RECURSIVE ExpectedInGame(_, _, _)
ExpectedInGame(u, game, k) ==
    IF k = 0 THEN << >>
    ELSE IF game.scores[k].user_id = u /\ game.scores[k].score > 0
    THEN Append(ExpectedInGame(u, game, k - 1), ExpectedPointCost(game, k))
    ELSE ExpectedInGame(u, game, k - 1)

RECURSIVE ExpectedCosts(_, _)
ExpectedCosts(u, g) ==
    IF g = 0 THEN << >>
    ELSE ExpectedCosts(u, g - 1) \o ExpectedInGame(u, games[g], Len(games[g].scores))

\* C10: after the loop has read g games, the point costs of every player are,
\* in order, score / average + 0.5 for each of the player's scores above 0;
\* in a single-game match a player with one score and at most two mod
\* combinations has that value as match cost, and the scores of two
\* players in the ratio 100 : 300 give 1.0 and 2.0 with the higher scorer
\* as MVP (when that player has an entry in users).
C10_PointCostFormula ==
    /\ pc \in {"collect", "tiebreaker"} =>
        \A u \in AllUsers : Get(point_costs, u, << >>) = ExpectedCosts(u, game_idx - 1)
    /\ (pc = "done" /\ Len(games) = 1) =>
        /\ \A e \in AllData :
            (Len(ExpectedCosts(e[1], 1)) = 1 /\ Cardinality(mods[e[1]]) <= 2) =>
                e[2] = ExpectedCosts(e[1], 1)[1]
        /\ \A a, b \in 1..Len(games[1].scores) :
            ( /\ NumValid(games[1]) = 2
              /\ games[1].scores[a].user_id # games[1].scores[b].user_id
              /\ games[1].scores[a].score = 1
              /\ games[1].scores[b].score = 3 ) =>
                /\ << games[1].scores[a].user_id, Scale >> \in AllData
                /\ << games[1].scores[b].user_id, 2 * Scale >> \in AllData
                /\ games[1].scores[b].user_id \in users =>
                        result.mvp_avatar_url = games[1].scores[b].user_id

\* the distinct mod combinations, NoFail removed, of the scores above 0 of
\* player u
ModCombinations(u) ==
    { games[g].scores[k].mods \ {"NF"} :
        <<g, k>> \in { x \in (1..Len(games)) \X (1..3) :
                        /\ x[2] <= Len(games[x[1]].scores)
                        /\ games[x[1]].scores[x[2]].user_id = u
                        /\ games[x[1]].scores[x[2]].score > 0 } }

\* value * (1 + 0.02 * extra)
TimesModFactor(value, extra) ==
    IF value = Inf THEN Inf ELSE (value * (50 + extra)) \div 50

\* C11: the mod stage multiplies every point cost of a player with n distinct
\* mod combinations by 1 + 0.02 * max(0, n - 2) (1.02 for n = 3, 1.04 for
\* n = 4) and leaves the point costs of a player with n <= 2 unchanged.
C11_ModBonus ==
    [][pc = "mods" =>
        /\ DOMAIN point_costs' = DOMAIN point_costs
        /\ \A u \in DOMAIN point_costs :
            LET n == Cardinality(ModCombinations(u))
            IN  IF n <= 2 THEN point_costs'[u] = point_costs[u]
                ELSE /\ Len(point_costs'[u]) = Len(point_costs[u])
                     /\ \A k \in 1..Len(point_costs[u]) :
                            point_costs'[u][k] = TimesModFactor(point_costs[u][k], n - 2)]_vars

\* the first player has used three combinations and holds costs of
\* 1.02 * (score / average + 0.5)
C11_Witness ==
    /\ pc = "aggregate"
    /\ ~tiebreaker
    /\ Cardinality(ModCombinations(1)) = 3
    /\ \A k \in 1..Len(point_costs[1]) :
        point_costs[1][k] = (ExpectedCosts(1, Len(games))[k] * 102) \div 100

\* C12: the match cost of a player is the mean of the player's point costs
\* times 1.4 ^ (exponent ^ 0.6), the exponent being 0 in a single-game match
\* and (n_played - 1) / (n_total - 1) otherwise: the factor is 1.0 for a
\* player with one point cost and 1.4 for one who has as many as there are
\* games.
C12_ParticipationScaling ==
    [][pc = "aggregate" /\ pc' = "aggregate" =>
        LET u == processed'[Len(processed')]
            n_played == Len(point_costs[u])
            n_total == Len(games)
            mean == FDivCount(FSum(point_costs[u], n_played), n_played)
            factor == IF n_total = 1 \/ n_played = 1 THEN Scale
                      ELSE IF n_played = n_total THEN (14 * Scale) \div 10
                      ELSE ParticipationTable[n_total - 1][n_played]
        IN  << u, FMul(mean, factor) >> \in Range(data'[teams[u]])]_vars

\* a three-game match: one player played all games and has 1.4 times the
\* mean, another played one game and has the mean
C12_Witness ==
    /\ pc = "done"
    /\ Len(games) = 3
    /\ \E a, b \in AllData :
        /\ Len(point_costs[a[1]]) = 3
        /\ a[2] = FMul(FDivCount(FSum(point_costs[a[1]], 3), 3), (14 * Scale) \div 10)
        /\ a[2] > FDivCount(FSum(point_costs[a[1]], 3), 3)
        /\ Len(point_costs[b[1]]) = 1
        /\ b[2] = point_costs[b[1]][1]

\* C13: the shape of the result follows the team type of the first game
\* only: TeamVS gives blue, red and the tallies and no players list, anything
\* else gives a players list and neither blue nor red.
C13_ShapeFromFirstGame ==
    pc = "done" =>
        IF games[1].team_type = TeamVS
        THEN /\ result.kind = TeamVS
             /\ DOMAIN result = {"kind", "mvp_avatar_url", "match_scores", "blue", "red"}
        ELSE /\ result.kind = HeadToHead
             /\ DOMAIN result = {"kind", "mvp_avatar_url", "players"}

\* a head-to-head first game followed by a team game, with scores on teams
C13_Witness ==
    /\ pc = "done"
    /\ games[1].team_type = HeadToHead
    /\ games[Len(games)].team_type = TeamVS
    /\ Blue \in DOMAIN data
    /\ result.kind = HeadToHead

\* the records of player u with a score above 0 in game g
ValidRecords(u, g) ==
    { k \in 1..Len(games[g].scores) :
        games[g].scores[k].user_id = u /\ games[g].scores[k].score > 0 }

\* C14: when the tiebreaker bonus applies it changes no point cost but
\* those earned in the last game by players with a score above 0 in the last
\* game: the point costs of a player with no such score (listed with score 0
\* or not listed) and the point costs of earlier games stay as they were.
C14_TiebreakerFrame ==
    [][(pc = "tiebreaker" /\ tiebreaker') =>
        \A u \in DOMAIN point_costs : \A k \in 1..Len(point_costs[u]) :
            point_costs'[u][k] # point_costs[u][k] =>
                k > Len(point_costs[u]) - Cardinality(ValidRecords(u, Len(games)))]_vars

\* C15: when the tiebreaker bonus applies, the last-game point cost of every
\* player with a score above 0 in the last game becomes value * 2.0 - 0.5,
\* which is 2 * (score / average) + 0.5.
C15_TiebreakerValue ==
    [][(pc = "tiebreaker" /\ tiebreaker') =>
        \A u \in AllUsers : ValidRecords(u, Len(games)) # {} =>
            LET last == games[Len(games)]
                k == CHOOSE r \in ValidRecords(u, Len(games)) :
                        \A o \in ValidRecords(u, Len(games)) : o <= r
                value == point_costs[u][Len(point_costs[u])]
                replaced == point_costs'[u][Len(point_costs[u])]
            IN  /\ replaced = IF value = Inf THEN Inf ELSE 2 * value - Scale \div 2
                /\ replaced = 2 * ((last.scores[k].score * NumValid(last) * Scale)
                                    \div SumTo(last.scores, Len(last.scores)))
                              + Scale \div 2]_vars

RECURSIVE TeamSum(_, _, _)
\* the sum of the scores above 0 that team t has among the first k records
\* of a game
TeamSum(game, t, k) ==
    IF k = 0 THEN 0
    ELSE TeamSum(game, t, k - 1)
         + (IF game.scores[k].team = t THEN game.scores[k].score ELSE 0)

BlueSum(game) == TeamSum(game, Blue, Len(game.scores))

RedSum(game) == TeamSum(game, Red, Len(game.scores))

\* C16: a game in which Blue and Red have equal summed scores increments
\* neither team's tally of won games.
C16_TieAwardsNobody ==
    [][(pc = "collect" /\ BlueSum(games[game_idx]) = RedSum(games[game_idx])) =>
        match_scores' = match_scores]_vars

\* C17: scores without a team have no part in a game's winner: when Blue's
\* sum is strictly higher than Red's, Blue's tally goes up by one, whatever
\* the scorers without a team have summed.
C17_WinnerAmongBlueAndRed ==
    [][(/\ pc = "collect"
        /\ pc' # "panic"
        /\ BlueSum(games[game_idx]) > RedSum(games[game_idx])) =>
        match_scores' = << match_scores[1] + 1, match_scores[2] >>]_vars

\* C18: every player has at least one point cost and at most as many as
\* there are games, so that the exponent (n_played - 1) / (n_total - 1) is
\* between 0 and 1, also when a game lists a user id in several records.
C18_PlayedWithinGames ==
    \A u \in DOMAIN point_costs :
        /\ 1 <= Len(point_costs[u])
        /\ Len(point_costs[u]) <= Len(games)
        /\ Len(games) > 1 =>
            /\ 0 <= Len(point_costs[u]) - 1
            /\ Len(point_costs[u]) - 1 <= Len(games) - 1

\* the first game in which player u has a score above 0
FirstGame(u) ==
    CHOOSE g \in 1..Len(games) :
        /\ ValidRecords(u, g) # {}
        /\ \A h \in 1..(g - 1) : ValidRecords(u, h) = {}

\* the team of the first score above 0 of player u, in game order
FirstTeam(u) ==
    LET g == FirstGame(u)
        records == ValidRecords(u, g)
        first == CHOOSE k \in records : \A o \in records : k <= o
    IN  games[g].scores[first].team

IdsOf(list) == { list[k][1] : k \in 1..Len(list) }

\* C19: a player is grouped under the team of the player's first score
\* above 0 in game order, whatever the team of later scores.
C19_FirstTeamKept ==
    /\ \A u \in DOMAIN teams : teams[u] = FirstTeam(u)
    /\ \A t \in DOMAIN data : \A u \in IdsOf(data[t]) : FirstTeam(u) = t
    /\ (pc = "done" /\ result.kind = TeamVS) =>
        /\ \A u \in IdsOf(result.blue) : FirstTeam(u) = Blue
        /\ \A u \in IdsOf(result.red) : FirstTeam(u) = Red

\* the second player scored for Red first and for Blue later, and is
\* returned in red
C19_Witness ==
    /\ pc = "done"
    /\ result.kind = TeamVS
    /\ 2 \in IdsOf(result.red)
    /\ FirstTeam(2) = Red
    /\ \E g \in 2..Len(games) : \E k \in ValidRecords(2, g) :
        games[g].scores[k].team = Blue

\* C20: the mod combinations counted for a player are the distinct values
\* of the mods without NoFail over the player's scores above 0: mods that
\* differ by NoFail alone are one combination and the mods of a score of 0
\* are not counted.
C20_ModCombinationsCounted ==
    pc \in {"tiebreaker", "mods", "aggregate", "done"} =>
        \A u \in AllUsers :
            LET counted == ModCombinations(u)
            IN  /\ u \in DOMAIN mods <=> counted # {}
                /\ u \in DOMAIN mods => mods[u] = counted

\* the first player scored with Hidden and with Hidden and NoFail, was
\* listed with HardRock and score 0, and has one combination counted
C20_Witness ==
    /\ pc = "aggregate"
    /\ \E g, h, i \in 1..Len(games) :
        /\ games[g].scores[1] = Score(1, 1, Hidden, NoTeam)
        /\ games[h].scores[1] = Score(1, 1, HiddenNoFail, NoTeam)
        /\ games[i].scores[1] = Score(1, 0, HardRock, NoTeam)
    /\ mods[1] = {Hidden}

\* player u gets both bonuses: the tiebreaker bonus applies, u has a score
\* above 0 in the last game and more than two mod combinations
HasBothBonuses(u) ==
    /\ tiebreaker
    /\ ValidRecords(u, Len(games)) # {}
    /\ Cardinality(ModCombinations(u)) > 2

\* C21: the stages run in the order collect, tiebreaker, mods, aggregate:
\* for a player with both bonuses the last-game point cost that enters the
\* mean is ((score / average + 0.5) * 2.0 - 0.5) * (1 + 0.02 * extra) and
\* every other point cost is (score / average + 0.5) * (1 + 0.02 * extra).
C21_TiebreakerBeforeMods ==
    pc \in {"aggregate", "done"} =>
        \A u \in DOMAIN point_costs : HasBothBonuses(u) =>
            LET collected == ExpectedCosts(u, Len(games))
                extra == Cardinality(ModCombinations(u)) - 2
                last == Len(collected)
            IN  /\ Len(point_costs[u]) = last
                /\ \A k \in 1..(last - 1) :
                    point_costs[u][k] = TimesModFactor(collected[k], extra)
                /\ point_costs[u][last] =
                    TimesModFactor(2 * collected[last] - Scale \div 2, extra)

\* the mean of the point costs of player u times the participation factor
CostOf(u) ==
    LET n_played == Len(point_costs[u])
        mean == FDivCount(FSum(point_costs[u], n_played), n_played)
        factor == IF Len(games) = 1 \/ n_played = 1 THEN Scale
                  ELSE ParticipationTable[Len(games) - 1][n_played]
    IN  FMul(mean, factor)

\* the entries of the players of team t in the order the loop reached them
EntriesOf(t) ==
    LET ids == SelectSeq(processed, LAMBDA u : teams[u] = t)
    IN  [k \in 1..Len(ids) |-> << ids[k], CostOf(ids[k]) >>]

\* list holds the entries of data, none lost or added, by non-ascending cost
IsSortOf(list, entries) ==
    /\ list \in Orderings(entries)
    /\ \A k \in 1..(Len(list) - 1) : list[k][2] >= list[k + 1][2]

\* C22: users decides the MVP avatar and nothing else: every player the
\* loop reached has a match-cost entry, with or without an entry in users,
\* the lists returned are those entries sorted, and the avatar is empty when
\* no player with a point cost has an entry in users.
C22_UsersOnlyForAvatar ==
    /\ pc \in {"aggregate", "done"} =>
        \A t \in {Blue, Red, NoTeam} : Get(data, t, << >>) = EntriesOf(t)
    /\ pc = "done" =>
        /\ IF result.kind = TeamVS
           THEN /\ IsSortOf(result.blue, EntriesOf(Blue))
                /\ IsSortOf(result.red, EntriesOf(Red))
           ELSE IsSortOf(result.players, EntriesOf(NoTeam))
        /\ Range(processed) = DOMAIN point_costs
        /\ DOMAIN point_costs \cap users = {} => result.mvp_avatar_url = 0

\* three players are returned, the one with the highest cost has no entry
\* in users, and the avatar is that of another player
C22_Witness ==
    /\ pc = "done"
    /\ users = {1, 2}
    /\ result.kind = HeadToHead
    /\ Len(result.players) = 3
    /\ result.players[1][1] = 3
    /\ result.players[1][2] > result.players[2][2]
    /\ result.mvp_avatar_url \in {1, 2}

\* all entries returned, blue and red or players, as one list
ResultSeq ==
    IF result.kind = TeamVS THEN result.blue \o result.red
    ELSE IF result.kind = HeadToHead THEN result.players
    ELSE << >>

Occurrences(u) == Cardinality({k \in 1..Len(ResultSeq) : ResultSeq[k][1] = u})

\* the teams whose lists the result holds
ReturnedTeams == IF games[1].team_type = TeamVS THEN {Blue, Red} ELSE {NoTeam}

\* C27 as stated: every player with a score above 0 appears exactly once in
\* the result, across blue, red and players.
C27_EveryScorerOnce ==
    pc = "done" => \A u \in AllUsers : HasValidScore(u) => Occurrences(u) = 1

\* C27: a player with a score above 0 appears exactly once in the result
\* when the team of the player's first such score is one the result returns
\* (Blue or Red after a TeamVS first game, no team otherwise) and not at all
\* when it is not; no player appears twice.
C27_ScorerOfReturnedTeamOnce ==
    pc = "done" =>
        \A u \in AllUsers :
            Occurrences(u) = IF HasValidScore(u) /\ FirstTeam(u) \in ReturnedTeams
                             THEN 1 ELSE 0

\* a TeamVS result with a Blue and a Red player once each and without the
\* third player, who scored without a team
C27_Witness ==
    /\ pc = "done"
    /\ result.kind = TeamVS
    /\ HasValidScore(3)
    /\ FirstTeam(3) = NoTeam
    /\ Occurrences(3) = 0
    /\ IdsOf(result.blue) = {1}
    /\ IdsOf(result.red) = {2}
    /\ Len(ResultSeq) = 2

\* every score of every game is without a team
AllWithoutTeam ==
    \A g \in 1..Len(games) : \A k \in 1..Len(games[g].scores) :
        games[g].scores[k].team = NoTeam

\* C28: in a match whose scores all have no team the tally of won games is
\* 0-0 after every game and the tiebreaker bonus is never applied, whatever
\* finished and the number of games are.
C28_NoTeamsNoTiebreaker ==
    AllWithoutTeam => (match_scores = << 0, 0 >> /\ ~tiebreaker)

\* a finished match of three games, each with scores above 0 and none with
\* a team, has gone through all stages
C28_Witness ==
    /\ pc = "done"
    /\ finished
    /\ Len(games) = 3
    /\ AllWithoutTeam
    /\ \A g \in 1..3 : ~NoValidScorer(games[g])
    /\ match_scores = << 0, 0 >>
    /\ ~tiebreaker

\* the games among the events of the match, without the first warmups ones
GamesLeft ==
    LET all == SelectSeq(osu_match.events, LAMBDA e : e.kind = "game")
    IN  [k \in 1..(Len(all) - warmups) |-> all[k + warmups]]

\* the users with a score above 0 in those games
ScorersLeft ==
    { r.user_id : r \in { x \in UNION { GamesLeft[k].scores : k \in 1..Len(GamesLeft) } :
                            x.score > 0 } }

\* the command has decided whether to call process_match
PastGuard ==
    \/ cmd_pc = "embed"
    \/ cmd_pc = "done" /\ reply \in {"embed", TOO_MANY_PLAYERS_TEXT}

\* C23: process_match is called only with games left after the warmups and
\* at most 50 users with a score above 0 in them; with more than 50 the
\* command answers with the too-many-players text and computes nothing, and
\* with no games left it takes the no-games description without calling
\* process_match.
C23_ProcessMatchGuarded ==
    /\ called_process_match =>
        /\ GamesLeft # << >>
        /\ Cardinality(ScorersLeft) <= 50
    /\ (PastGuard /\ Cardinality(ScorersLeft) > 50) =>
        /\ cmd_pc = "done"
        /\ reply = TOO_MANY_PLAYERS_TEXT
        /\ ~called_process_match
        /\ description = ""
    /\ (PastGuard /\ GamesLeft = << >>) =>
        /\ description = "No games played yet beyond the warmups"
        /\ ~called_process_match

\* process_match was called for 50 scorers after a warmup was skipped
C23_Witness ==
    /\ called_process_match
    /\ warmups > 0
    /\ Cardinality(ScorersLeft) = 50

\* the command was answered with the too-many-players text for 51 scorers
C23_WitnessTooMany ==
    /\ cmd_pc = "done"
    /\ Cardinality(ScorersLeft) = 51
    /\ reply = TOO_MANY_PLAYERS_TEXT
    /\ ~called_process_match

NoDuplicates(seq) == \A a, b \in 1..Len(seq) : a # b => seq[a] # seq[b]

\* retrieve_previous has returned Ok
PreviousReturnedOk == cmd_pc \in {"drain", "guard", "embed"} \/ (cmd_pc = "done" /\ PastGuard)

RECURSIVE OlderFirst(_)
\* the events of the first n pages of history, the oldest page first
OlderFirst(n) == IF n = 0 THEN << >> ELSE history[n].events \o OlderFirst(n - 1)

\* C24: retrieve_previous fetches at most 5 pages and stops at a page
\* without predecessor; when it returns Ok the events of the match are those
\* of the fetched pages, oldest page first, followed by the events the match
\* had, none lost or repeated; a failed fetch returns the error at once.
C24_PreviousEvents ==
    /\ curr <= 5
    /\ curr <= Len(history)
    /\ PreviousReturnedOk =>
        /\ curr = IF Len(history) < 5 THEN Len(history) ELSE 5
        /\ \E kind \in PageKinds :
            osu_match.events = OlderFirst(curr) \o Page(0, kind).events
        /\ NoDuplicates(osu_match.events)
        /\ \A k \in 1..(Len(osu_match.events) - 1) :
            osu_match.events[k].id < osu_match.events[k + 1].id
    /\ (cmd_pc = "done" /\ cmd_result = "Err" /\ reply = "") =>
        /\ mc_games = << >>
        /\ ~called_process_match

\* five pages were fetched from a match that has more, and the events are
\* those of pages 5 to 1 and of the match, in this order
C24_Witness ==
    /\ cmd_pc = "done"
    /\ PastGuard
    /\ Len(history) > 5
    /\ curr = 5
    /\ Len(osu_match.events) = 12
    /\ osu_match.events[1] = history[5].events[1]
    /\ osu_match.events[10] = history[1].events[2]
    /\ osu_match.events[11].id = 100


----------------------------------------------------------------------------
\* the handler function of the command has been called
HandlerCalled == Len(events) > 0 /\ events[Len(events)] = "handler"

\* the deferred response of the command
Thinking == IF command.name = HELP \/ args.ephemeral THEN "thinking_ephemeral" ELSE "thinking"

ThinkingSent ==
    Cardinality({i \in 1..Len(events) : events[i] \in {"thinking", "thinking_ephemeral"}})

\* what each pre-check of pre_process_command asks for
ChecksHold ==
    /\ args.only_guilds => command.guild_id
    /\ command.author # "none"
    /\ command.name = "owner" => command.author = "owner"
    /\ env.ratelimit = 0
    /\ args.bucket # "" => env.cooldown = << >>
    /\ args.authority => env.authority = "None"

\* C25: the handler of a slash command is called only after the six
\* pre-checks passed in the order guild-only, owner-only, send permission,
\* global ratelimit, bucket cooldown, authority, with the thinking response
\* sent exactly once between the checks and the handler, and an only_owner
\* command never runs for another author.
C25_HandlerAfterAllChecks ==
    /\ ThinkingSent <= 1
    /\ HandlerCalled =>
        /\ events = << "only_guilds", "only_owner", "send_permission",
                       "ratelimit", "bucket", "authority", Thinking, "handler" >>
        /\ ChecksHold
        /\ env.send_messages

\* C25 as the code has it: help is answered after the thinking response
\* alone, and the send permission is checked only when the current user is
\* cached; every other check precedes the handler, in order.
C25_HandlerAfterChecksMade ==
    /\ ThinkingSent <= 1
    /\ HandlerCalled =>
        IF command.name = HELP
        THEN events = << "thinking_ephemeral", "handler" >>
        ELSE /\ events = << "only_guilds", "only_owner" >>
                    \o (IF env.current_user THEN << "send_permission" >> ELSE << >>)
                    \o << "ratelimit", "bucket", "authority", Thinking, "handler" >>
             /\ ChecksHold
             /\ env.current_user => env.send_messages

\* the owner command reached its handler, the send permission checked
C25_Witness ==
    /\ HandlerCalled
    /\ command.name = "owner"
    /\ args.only_owner
    /\ env.current_user
    /\ process_result = "Success"


----------------------------------------------------------------------------
\* invocation i started a game: its game message is shown to the user
StartedGame(i) == hl_reply[i] = "game"

\* C26: a user cannot play two higherlower games at once: while a game of
\* the user is registered in hl_games, no other invocation of that user
\* has started a game of its own.
C26_OneGameAtOnce ==
    \A i \in DOMAIN hl_user :
        (StartedGame(i) /\ hl_user[i] \in DOMAIN hl_games)
            => hl_games[hl_user[i]].msg = i

\* C26, the same of the step that creates a game: score_pp is not called
\* for a user whose game is registered.
C26_NoGameCreatedWhileRegistered ==
    [][\A i \in DOMAIN hl_user :
        (hl_pc[i] = "score_pp" /\ hl_pc'[i] = "respond")
            => hl_user[i] \notin DOMAIN hl_games]_vars


----------------------------------------------------------------------------
\* every call has completed
AllCompleted == \A p \in DOMAIN cfg_pc : cfg_pc[p] = "done"

\* the calls that update a guild's configuration
UpdatesOf(g) ==
    {p \in DOMAIN cfg_call :
        cfg_call[p].guild_id = g /\ cfg_call[p].op \in Modifications}

\* C29: updates of a guild's configuration are not lost: once the concurrent
\* calls have completed, the cached configuration of a guild holds the
\* modification of every update made to it, also of an update that ran
\* beside a peek of the uncached guild.
C29_UpdatesNotLost ==
    AllCompleted =>
        \A g \in Guilds : \A p \in UpdatesOf(g) :
            /\ g \in DOMAIN guild_configs
            /\ cfg_call[p].op \in guild_configs[g]

\* a store is between its upsert and its cache insert
StoreInFlight == \E p \in DOMAIN cfg_pc : cfg_pc[p] \in {"upsert", "insert"}

\* C30: the cache stays consistent with the database: whenever no store is
\* in flight, the cached configuration of a guild is the one last written
\* to the database; a store whose upsert failed left the cache as it was.
C30_CacheMatchesDatabase ==
    ~StoreInFlight =>
        \A g \in DOMAIN guild_configs :
            /\ g \in DOMAIN psql
            /\ guild_configs[g] = psql[g]

====
